---- MODULE Spec2Model ----
(***************************************************************************)
(* Host-side driver of the navigation sensor (pxt-ev3-navigation).         *)
(*                                                                         *)
(* Three driver classes are modelled, selected by the variable variant:    *)
(*   "main"   : src/main.ts, modes RANGE/HEADING, five ranges + three      *)
(*              angles, primary channel read by _query at offset 0;        *)
(*   "dual"   : src/navigation-sensor.ts lines 27-205, the dual-lidar      *)
(*              class whose _update re-reads the right and left ranges;    *)
(*   "single" : src/navigation-sensor.ts lines 224-393, the second class   *)
(*              of that file (thresholds 0..255, plain _update).           *)
(*                                                                         *)
(* The host library parts the classes call (UartSensor._setMode and        *)
(* getNumber, sensors.ThresholdDetector, control.raiseEvent and            *)
(* control.waitForEvent) are not in the repository; they are modelled from *)
(* sections 4.1-4.3 and 6 of the specification.                            *)
(*                                                                         *)
(* Spec runs the operations of one instance, each as one step.  SpecTwo    *)
(* runs two instances of one class on two ports, with a context that may   *)
(* be suspended in pauseUntil.  SpecPoll splits an accessor call into its  *)
(* mode selection and its read, with poll steps running in between.        *)
(***************************************************************************)
EXTENDS Integers, Sequences, FiniteSets, TLC

VARIABLES
    variant,   \* which driver class this instance is
    d,         \* the driver object: id, currentMode, promixityThreshold, movementThreshold
    op,        \* the last operation called on the driver and its arguments
    cmds,      \* device mode-switch commands issued by the last operation, in order
    raised,    \* events raised by the last operation, in order
    reads,     \* transport reads performed by the last operation, in order
    ret,       \* value returned by the last operation
    peer,      \* the driver object of a second instance, on another port
    self,      \* port of the instance the last operation was called on
    waiting,   \* the context suspended in pauseUntil, if any
    pending    \* the accessor call that has selected its mode and not yet read

vars == <<variant, d, op, cmds, raised, reads, ret, peer, self, waiting, pending>>

----------------------------------------------------------------------------
(* Protocol constants *)

\* NavigationSensorEvent
ObjectDetected == 10
ObjectNearLeft == 4
ObjectNearRight == 5

\* sensors.ThresholdState
Normal == 1
High == 2
Low == 3

ObjectNear == Low

\* NavigationSensorMode
None == -1
RANGE == 0
HEADING == 1
NAV1 == 0
NAV2 == 1

\* NumberFormat
Int16LE == "Int16LE"
UInt16LE == "UInt16LE"

----------------------------------------------------------------------------
(* Bounds of the model *)

\* largest difference curr - prev tried around the movement boundary
MaxDelta == 2

\* ports on which an instance is constructed
Ports == {1}

\* port of the second instance (navigation2)
PeerPort == 2

Variants == {"main", "dual", "single"}

\* two-byte fields <<low byte, high byte>> the device may return:
\* 50, 100, 300, 2000 and 0xFFFF
Words == {<<50, 0>>, <<100, 0>>, <<44, 1>>, <<208, 7>>, <<255, 255>>}

\* a buffer carries one two-byte field per channel of the active mode; the
\* largest mode, RANGE, has five channels
ChannelsPerBuffer == 5

\* the buffer in which every channel holds the field w
Fill(w) == [i \in 1 .. 2 * ChannelsPerBuffer |-> w[((i - 1) % 2) + 1]]

\* a buffer with a different field in every channel: 100, 300, 1000, 10000
\* and 0xFFFF
ExampleBuffer == <<100, 0, 44, 1, 232, 3, 16, 39, 255, 255>>

\* buffers the device may return to a read
Buffers == {Fill(w) : w \in Words} \cup {ExampleBuffer}

\* fields the device may hold for the two ranges _update re-reads:
\* 50, 100 and 2000
RangeWords == {<<50, 0>>, <<100, 0>>, <<208, 7>>}

\* buffers the device may return to the reads _update makes itself
RangeBuffers == {Fill(w) : w \in RangeWords}

\* previous and current primary values handed to _update
PrevValues == {10, 100}
CurrValues == (10 .. 10 + MaxDelta) \cup {99, 100, 101, 1499, 1500}

\* values passed to setThreshold
ThresholdValues == {-1, 0, 200, 1500, 3000}

\* conditions passed to setThreshold and to the threshold getter
Conditions == {ObjectDetected, ObjectNear, ObjectNearLeft, ObjectNearRight, High}

----------------------------------------------------------------------------
(* Host library, modelled from the specification *)

\* section 4.1: little-endian 16-bit decode of the two bytes at offset off
\* of the buffer (offsets count from 0, sequences from 1)
decode(fmt, buf, off) ==
    LET u == buf[off + 1] + 256 * buf[off + 2]
    IN  IF fmt = Int16LE /\ u >= 32768 THEN u - 65536 ELSE u

\* no event is waited for
NoWait == [src |-> 0, code |-> 0]

\* the calling context an operation threads through its statements
Ctx(drv) ==
    [d |-> drv, cmds |-> <<>>, raised |-> <<>>, reads |-> <<>>, ret |-> 0,
     wait |-> NoWait]

\* section 4.2 ensureMode: a command is issued only when the mode differs
_setMode(c, m) ==
    IF m # c.d.currentMode
    THEN [c EXCEPT !.d.currentMode = m, !.cmds = Append(@, m)]
    ELSE c

\* section 6 transport read: the buffer belongs to the mode that is active
\* when the read is performed; buf is the buffer the device returns
getNumber(c, fmt, off, buf) ==
    [c EXCEPT !.reads = Append(@, [mode |-> c.d.currentMode, off |-> off,
                                   fmt |-> fmt, buf |-> buf,
                                   value |-> decode(fmt, buf, off)]),
              !.ret = decode(fmt, buf, off)]

\* section 6 event bus
raiseEvent(c, src, code) ==
    [c EXCEPT !.raised = Append(@, [src |-> src, code |-> code])]

\* section 6 event bus: the calling context is suspended until an event of
\* that source and code is raised
waitForEvent(c, src, code) ==
    [c EXCEPT !.wait = [src |-> src, code |-> code]]

\* section 4.3 / section 3: a detector starts in Normal
ThresholdDetector(id, min, max, lowThreshold, highThreshold) ==
    [id |-> id, min |-> min, max |-> max, lowThreshold |-> lowThreshold,
     highThreshold |-> highThreshold, state |-> Normal]

\* section 4.3 transition function.  It is given for lowThreshold <
\* highThreshold; when the two are equal and value meets both, the level is
\* not fixed by it and tie (Low or High) is the outcome taken.
levelOf(td, value, tie) ==
    IF value <= td.lowThreshold /\ value >= td.highThreshold THEN tie
    ELSE IF value <= td.lowThreshold THEN Low
    ELSE IF value >= td.highThreshold THEN High
    ELSE Normal

\* the outcomes setLevel(value) can have where the transition function
\* leaves the level open
Ties(td, value) ==
    IF value <= td.lowThreshold /\ value >= td.highThreshold
    THEN {Low, High}
    ELSE {Low}

\* section 4.3 setLevel on the context's detector: recompute the level and
\* signal the new level, as an event of that code, only when it changed
setLevel(c, value, tie) ==
    LET td == c.d.promixityThreshold
        s  == levelOf(td, value, tie)
    IN  IF s = td.state THEN c
        ELSE raiseEvent([c EXCEPT !.d.promixityThreshold.state = s], td.id, s)

\* section 4.3 / section 7 setLowThreshold: a value violating
\* min <= low <= high <= max is rejected and the prior state retained
setLowThreshold(c, value) ==
    LET td == c.d.promixityThreshold
    IN  IF td.min <= value /\ value <= td.highThreshold
        THEN [c EXCEPT !.d.promixityThreshold.lowThreshold = value]
        ELSE c

\* section 4.3 threshold(state) of the detector
detectorThreshold(td, t) ==
    CASE t = Low -> td.lowThreshold
      [] t = High -> td.highThreshold

\* Math.abs
abs(x) == IF x < 0 THEN -x ELSE x

\* a driver object before its constructor body has run
NewSensor(port) ==
    [id |-> port, currentMode |-> None,
     promixityThreshold |-> ThresholdDetector(port, 0, 0, 0, 0),
     movementThreshold |-> 0]

----------------------------------------------------------------------------
(* src/main.ts *)

NavigationSensor(port) ==
    LET c0 == Ctx([NewSensor(port) EXCEPT
                     !.promixityThreshold = ThresholdDetector(port, 0, 255, 10, 100),
                     !.movementThreshold = 1])
    IN  _setMode(c0, HEADING)

\* _query selecting the mode of the heading it means to read
_query_selectsHeading(c, buf) == getNumber(_setMode(c, HEADING), Int16LE, 0, buf)

_query(c, buf) == getNumber(c, Int16LE, 0, buf)

\* _update raising ObjectNear itself whenever the value is at or below the
\* low threshold, instead of leaving it to the detector's level change
_update_levelTriggered(c, prev, curr, tie) ==
    LET td == c.d.promixityThreshold
        c1 == [c EXCEPT !.d.promixityThreshold.state = levelOf(td, curr, tie)]
        c2 == IF curr <= td.lowThreshold
              THEN raiseEvent(c1, c1.d.id, ObjectNear)
              ELSE c1
    IN  IF abs(prev - curr) > c2.d.movementThreshold
        THEN raiseEvent(c2, c2.d.id, ObjectDetected)
        ELSE c2

\* _update comparing the difference with >= instead of >
_update_atLeast(c, prev, curr, tie) ==
    LET c1 == setLevel(c, curr, tie)
    IN  IF abs(prev - curr) >= c1.d.movementThreshold
        THEN raiseEvent(c1, c1.d.id, ObjectDetected)
        ELSE c1

_update(c, prev, curr, tie) ==
    LET c1 == setLevel(c, curr, tie)
    IN  IF abs(prev - curr) > c1.d.movementThreshold
        THEN raiseEvent(c1, c1.d.id, ObjectDetected)
        ELSE c1

\* pauseUntil waiting for the detector's ObjectNear whatever event is named
pauseUntil_objectNear(c, event) == waitForEvent(c, c.d.id, ObjectNear)

pauseUntil(c, event) == waitForEvent(c, c.d.id, event)

distanceFrontLeft(c, buf) == getNumber(_setMode(c, RANGE), UInt16LE, 0, buf)

\* mutant: the front right range decoded as a signed field
distanceFrontRight_signed(c, buf) == getNumber(_setMode(c, RANGE), Int16LE, 2, buf)

distanceFrontRight(c, buf) == getNumber(_setMode(c, RANGE), UInt16LE, 2, buf)

\* distanceRear reading without selecting its mode first
distanceRear_noSelect(c, buf) == getNumber(c, UInt16LE, 8, buf)

distanceRear(c, buf) == getNumber(_setMode(c, RANGE), UInt16LE, 8, buf)

\* the left side range handed to the proximity detector as well
distanceLeftSide_setsLevel(c, buf) ==
    LET c1 == getNumber(_setMode(c, RANGE), UInt16LE, 4, buf)
    IN  setLevel(c1, c1.ret, Low)

distanceLeftSide(c, buf) == getNumber(_setMode(c, RANGE), UInt16LE, 4, buf)

distanceRightSide(c, buf) == getNumber(_setMode(c, RANGE), UInt16LE, 6, buf)

\* heading selecting the mode of the range accessors it was copied from
heading_rangeMode(c, buf) == getNumber(_setMode(c, RANGE), Int16LE, 0, buf)

heading(c, buf) == getNumber(_setMode(c, HEADING), Int16LE, 0, buf)

pitch(c, buf) == getNumber(_setMode(c, HEADING), Int16LE, 2, buf)

roll(c, buf) == getNumber(_setMode(c, HEADING), Int16LE, 4, buf)

\* setThreshold storing the low threshold itself, without the detector's
\* validation
setThreshold_unchecked(c, condition, value) ==
    CASE condition = ObjectNear ->
            [c EXCEPT !.d.promixityThreshold.lowThreshold = value]
      [] condition = ObjectDetected -> [c EXCEPT !.d.movementThreshold = value]
      [] OTHER -> c

setThreshold(c, condition, value) ==
    CASE condition = ObjectNear -> setLowThreshold(c, value)
      [] condition = ObjectDetected -> [c EXCEPT !.d.movementThreshold = value]
      [] OTHER -> c

threshold(c, condition) ==
    CASE condition = ObjectNear ->
            [c EXCEPT !.ret = detectorThreshold(c.d.promixityThreshold, Low)]
      [] condition = ObjectDetected -> [c EXCEPT !.ret = c.d.movementThreshold]
      [] OTHER -> [c EXCEPT !.ret = 0]

----------------------------------------------------------------------------
(* src/navigation-sensor.ts, first class (dual lidar) *)

\* the constructor giving every instance's detector the id of port 1
NavigationSensor_dual_sharedId(port) ==
    LET c0 == Ctx([NewSensor(port) EXCEPT
                     !.promixityThreshold = ThresholdDetector(1, 0, 2500, 100, 1500),
                     !.movementThreshold = 1])
    IN  _setMode(c0, NAV1)

NavigationSensor_dual(port) ==
    LET c0 == Ctx([NewSensor(port) EXCEPT
                     !.promixityThreshold = ThresholdDetector(port, 0, 2500, 100, 1500),
                     !.movementThreshold = 1])
    IN  _setMode(c0, NAV1)

_query_dual(c, buf) == getNumber(c, UInt16LE, 0, buf)

pauseUntil_dual(c, event) == waitForEvent(c, c.d.id, event)

distanceLeft(c, buf) == getNumber(_setMode(c, NAV1), UInt16LE, 0, buf)

distanceRight(c, buf) == getNumber(_setMode(c, NAV1), UInt16LE, 2, buf)

\* heading selecting NAV2, the other mode that carries the heading
heading_dual_nav2(c, buf) == getNumber(_setMode(c, NAV2), UInt16LE, 4, buf)

heading_dual(c, buf) == getNumber(_setMode(c, NAV1), UInt16LE, 4, buf)

\* _update feeding the previous value into the proximity detector
_update_dual_prev(c, prev, curr, tie, wr, wl) ==
    LET c1 == setLevel(c, prev, tie)
        c2 == IF abs(prev - curr) > c1.d.movementThreshold
              THEN raiseEvent(c1, c1.d.id, ObjectDetected)
              ELSE c1
        c3 == distanceRight(c2, wr)
        c4 == IF c3.ret < c3.d.promixityThreshold.lowThreshold
              THEN raiseEvent(c3, c3.d.id, ObjectNearRight)
              ELSE c3
        c5 == distanceLeft(c4, wl)
    IN  IF c5.ret < c5.d.promixityThreshold.lowThreshold
        THEN raiseEvent(c5, c5.d.id, ObjectNearLeft)
        ELSE c5

\* _update comparing the re-read ranges with <= instead of <
_update_dual_atMost(c, prev, curr, tie, wr, wl) ==
    LET c1 == setLevel(c, curr, tie)
        c2 == IF abs(prev - curr) > c1.d.movementThreshold
              THEN raiseEvent(c1, c1.d.id, ObjectDetected)
              ELSE c1
        c3 == distanceRight(c2, wr)
        c4 == IF c3.ret <= c3.d.promixityThreshold.lowThreshold
              THEN raiseEvent(c3, c3.d.id, ObjectNearRight)
              ELSE c3
        c5 == distanceLeft(c4, wl)
    IN  IF c5.ret <= c5.d.promixityThreshold.lowThreshold
        THEN raiseEvent(c5, c5.d.id, ObjectNearLeft)
        ELSE c5

\* _update checking the left range before the right range
_update_dual_leftFirst(c, prev, curr, tie, wr, wl) ==
    LET c1 == setLevel(c, curr, tie)
        c2 == IF abs(prev - curr) > c1.d.movementThreshold
              THEN raiseEvent(c1, c1.d.id, ObjectDetected)
              ELSE c1
        c3 == distanceLeft(c2, wl)
        c4 == IF c3.ret < c3.d.promixityThreshold.lowThreshold
              THEN raiseEvent(c3, c3.d.id, ObjectNearLeft)
              ELSE c3
        c5 == distanceRight(c4, wr)
    IN  IF c5.ret < c5.d.promixityThreshold.lowThreshold
        THEN raiseEvent(c5, c5.d.id, ObjectNearRight)
        ELSE c5

\* _update comparing the right range in both side checks
_update_dual_rightTwice(c, prev, curr, tie, wr, wl) ==
    LET c1 == setLevel(c, curr, tie)
        c2 == IF abs(prev - curr) > c1.d.movementThreshold
              THEN raiseEvent(c1, c1.d.id, ObjectDetected)
              ELSE c1
        c3 == distanceRight(c2, wr)
        c4 == IF c3.ret < c3.d.promixityThreshold.lowThreshold
              THEN raiseEvent(c3, c3.d.id, ObjectNearRight)
              ELSE c3
        c5 == distanceLeft(c4, wl)
    IN  IF c3.ret < c5.d.promixityThreshold.lowThreshold
        THEN raiseEvent(c5, c5.d.id, ObjectNearLeft)
        ELSE c5

\* wr and wl are the fields the device holds for the right and left range
\* when _update re-reads them
_update_dual(c, prev, curr, tie, wr, wl) ==
    LET c1 == setLevel(c, curr, tie)
        c2 == IF abs(prev - curr) > c1.d.movementThreshold
              THEN raiseEvent(c1, c1.d.id, ObjectDetected)
              ELSE c1
        c3 == distanceRight(c2, wr)
        c4 == IF c3.ret < c3.d.promixityThreshold.lowThreshold
              THEN raiseEvent(c3, c3.d.id, ObjectNearRight)
              ELSE c3
        c5 == distanceLeft(c4, wl)
    IN  IF c5.ret < c5.d.promixityThreshold.lowThreshold
        THEN raiseEvent(c5, c5.d.id, ObjectNearLeft)
        ELSE c5

\* setThreshold storing the low threshold itself, without the detector's
\* validation
setThreshold_dual_unchecked(c, condition, value) ==
    IF condition = ObjectDetected
    THEN [c EXCEPT !.d.movementThreshold = value]
    ELSE [c EXCEPT !.d.promixityThreshold.lowThreshold = value]

setThreshold_dual(c, condition, value) ==
    IF condition = ObjectDetected
    THEN [c EXCEPT !.d.movementThreshold = value]
    ELSE setLowThreshold(c, value)

\* the getter returning the low threshold whatever the condition
getProximityThreshold_low(c, condition) ==
    [c EXCEPT !.ret = c.d.promixityThreshold.lowThreshold]

getProximityThreshold(c, condition) ==
    IF condition = ObjectDetected
    THEN [c EXCEPT !.ret = c.d.movementThreshold]
    ELSE [c EXCEPT !.ret = detectorThreshold(c.d.promixityThreshold, Low)]

----------------------------------------------------------------------------
(* src/navigation-sensor.ts, second class *)

NavigationSensor_single(port) ==
    LET c0 == Ctx([NewSensor(port) EXCEPT
                     !.promixityThreshold = ThresholdDetector(port, 0, 255, 10, 100),
                     !.movementThreshold = 1])
    IN  _setMode(c0, NAV1)

_query_single(c, buf) == getNumber(c, UInt16LE, 0, buf)

\* _update handing the value to setLowThreshold instead of setLevel
_update_single_setsLow(c, prev, curr, tie) ==
    LET c1 == setLowThreshold(c, curr)
    IN  IF abs(prev - curr) > c1.d.movementThreshold
        THEN raiseEvent(c1, c1.d.id, ObjectDetected)
        ELSE c1

_update_single(c, prev, curr, tie) ==
    LET c1 == setLevel(c, curr, tie)
    IN  IF abs(prev - curr) > c1.d.movementThreshold
        THEN raiseEvent(c1, c1.d.id, ObjectDetected)
        ELSE c1

pauseUntil_single(c, event) == waitForEvent(c, c.d.id, event)

distanceLeft_single(c, buf) == getNumber(_setMode(c, NAV1), UInt16LE, 0, buf)

distanceRight_single(c, buf) == getNumber(_setMode(c, NAV1), UInt16LE, 2, buf)

heading_single(c, buf) == getNumber(_setMode(c, NAV1), UInt16LE, 4, buf)

\* setThreshold whose switch sends every other condition to the low threshold
setThreshold_single_default(c, condition, value) ==
    CASE condition = ObjectDetected -> [c EXCEPT !.d.movementThreshold = value]
      [] OTHER -> setLowThreshold(c, value)

setThreshold_single(c, condition, value) ==
    CASE condition = ObjectNear -> setLowThreshold(c, value)
      [] condition = ObjectDetected -> [c EXCEPT !.d.movementThreshold = value]
      [] OTHER -> c

threshold_single(c, condition) ==
    CASE condition = ObjectNear ->
            [c EXCEPT !.ret = detectorThreshold(c.d.promixityThreshold, Low)]
      [] condition = ObjectDetected -> [c EXCEPT !.ret = c.d.movementThreshold]
      [] OTHER -> [c EXCEPT !.ret = 0]

----------------------------------------------------------------------------
(* The state machine *)

Op(name, cond, value, prev, curr) ==
    [name |-> name, cond |-> cond, value |-> value, prev |-> prev, curr |-> curr]

\* nobody is suspended in pauseUntil.  A waiter is the call pauseUntil(event)
\* made on the instance of that port, the (src, code) it handed to the event
\* bus, and whether it is still suspended or has resumed.
NoWaiter == [status |-> "none", port |-> 0, event |-> 0, src |-> 0, code |-> 0]

\* no accessor call is between its mode selection and its read; polls are
\* the poll steps that ran after the last selection and before its read
NoPending == [name |-> "none", polls |-> <<>>]

\* what an operation on the first instance did
Effect(c, o) ==
    /\ d' = c.d
    /\ cmds' = c.cmds
    /\ raised' = c.raised
    /\ reads' = c.reads
    /\ ret' = c.ret
    /\ op' = o
    /\ UNCHANGED variant

\* the state an operation leaves: the driver, and what the operation did
Leaves(result, o) ==
    \E c \in {result} :
        /\ Effect(c, o)
        /\ UNCHANGED <<peer, self, waiting, pending>>

\* an operation that returns no value
Void(c) == [c EXCEPT !.ret = 0]

Constructed(v, port) ==
    CASE v = "main" -> NavigationSensor(port)
      [] v = "dual" -> NavigationSensor_dual(port)
      [] v = "single" -> NavigationSensor_single(port)

Init ==
    \E v \in Variants, port \in Ports :
        LET c == Constructed(v, port)
        IN  /\ variant = v
            /\ d = c.d
            /\ cmds = c.cmds
            /\ raised = c.raised
            /\ reads = c.reads
            /\ ret = 0
            /\ op = Op("constructor", 0, 0, 0, 0)
            /\ peer = Constructed(v, PeerPort).d
            /\ self = port
            /\ waiting = NoWaiter
            /\ pending = NoPending

(* src/main.ts *)

Query ==
    /\ variant = "main"
    /\ \E buf \in Buffers : Leaves(_query(Ctx(d), buf), Op("_query", 0, 0, 0, 0))

Update ==
    /\ variant = "main"
    /\ \E prev \in PrevValues, curr \in CurrValues :
       \E tie \in Ties(d.promixityThreshold, curr) :
        Leaves(Void(_update(Ctx(d), prev, curr, tie)), Op("_update", 0, 0, prev, curr))

DistanceFrontLeft ==
    /\ variant = "main"
    /\ \E buf \in Buffers :
        Leaves(distanceFrontLeft(Ctx(d), buf), Op("distanceFrontLeft", 0, 0, 0, 0))

DistanceFrontRight ==
    /\ variant = "main"
    /\ \E buf \in Buffers :
        Leaves(distanceFrontRight(Ctx(d), buf), Op("distanceFrontRight", 0, 0, 0, 0))

DistanceRear ==
    /\ variant = "main"
    /\ \E buf \in Buffers :
        Leaves(distanceRear(Ctx(d), buf), Op("distanceRear", 0, 0, 0, 0))

DistanceLeftSide ==
    /\ variant = "main"
    /\ \E buf \in Buffers :
        Leaves(distanceLeftSide(Ctx(d), buf), Op("distanceLeftSide", 0, 0, 0, 0))

DistanceRightSide ==
    /\ variant = "main"
    /\ \E buf \in Buffers :
        Leaves(distanceRightSide(Ctx(d), buf), Op("distanceRightSide", 0, 0, 0, 0))

Heading ==
    /\ variant = "main"
    /\ \E buf \in Buffers : Leaves(heading(Ctx(d), buf), Op("heading", 0, 0, 0, 0))

Pitch ==
    /\ variant = "main"
    /\ \E buf \in Buffers : Leaves(pitch(Ctx(d), buf), Op("pitch", 0, 0, 0, 0))

Roll ==
    /\ variant = "main"
    /\ \E buf \in Buffers : Leaves(roll(Ctx(d), buf), Op("roll", 0, 0, 0, 0))

SetThreshold ==
    /\ variant = "main"
    /\ \E condition \in Conditions, value \in ThresholdValues :
        Leaves(Void(setThreshold(Ctx(d), condition, value)),
               Op("setThreshold", condition, value, 0, 0))

Threshold ==
    /\ variant = "main"
    /\ \E condition \in Conditions :
        Leaves(threshold(Ctx(d), condition), Op("threshold", condition, 0, 0, 0))

(* src/navigation-sensor.ts, first class *)

QueryDual ==
    /\ variant = "dual"
    /\ \E buf \in Buffers : Leaves(_query_dual(Ctx(d), buf), Op("_query", 0, 0, 0, 0))

UpdateDual ==
    /\ variant = "dual"
    /\ \E prev \in PrevValues, curr \in CurrValues, wr \in RangeBuffers, wl \in RangeBuffers :
       \E tie \in Ties(d.promixityThreshold, curr) :
        Leaves(Void(_update_dual(Ctx(d), prev, curr, tie, wr, wl)),
               Op("_update", 0, 0, prev, curr))

DistanceLeft ==
    /\ variant = "dual"
    /\ \E buf \in Buffers : Leaves(distanceLeft(Ctx(d), buf), Op("distanceLeft", 0, 0, 0, 0))

DistanceRight ==
    /\ variant = "dual"
    /\ \E buf \in Buffers : Leaves(distanceRight(Ctx(d), buf), Op("distanceRight", 0, 0, 0, 0))

HeadingDual ==
    /\ variant = "dual"
    /\ \E buf \in Buffers : Leaves(heading_dual(Ctx(d), buf), Op("heading", 0, 0, 0, 0))

SetThresholdDual ==
    /\ variant = "dual"
    /\ \E condition \in Conditions, value \in ThresholdValues :
        Leaves(Void(setThreshold_dual(Ctx(d), condition, value)),
               Op("setThreshold", condition, value, 0, 0))

GetProximityThreshold ==
    /\ variant = "dual"
    /\ \E condition \in Conditions :
        Leaves(getProximityThreshold(Ctx(d), condition),
               Op("threshold", condition, 0, 0, 0))

(* src/navigation-sensor.ts, second class *)

QuerySingle ==
    /\ variant = "single"
    /\ \E buf \in Buffers : Leaves(_query_single(Ctx(d), buf), Op("_query", 0, 0, 0, 0))

UpdateSingle ==
    /\ variant = "single"
    /\ \E prev \in PrevValues, curr \in CurrValues :
       \E tie \in Ties(d.promixityThreshold, curr) :
        Leaves(Void(_update_single(Ctx(d), prev, curr, tie)),
               Op("_update", 0, 0, prev, curr))

DistanceLeftSingle ==
    /\ variant = "single"
    /\ \E buf \in Buffers :
        Leaves(distanceLeft_single(Ctx(d), buf), Op("distanceLeft", 0, 0, 0, 0))

DistanceRightSingle ==
    /\ variant = "single"
    /\ \E buf \in Buffers :
        Leaves(distanceRight_single(Ctx(d), buf), Op("distanceRight", 0, 0, 0, 0))

HeadingSingle ==
    /\ variant = "single"
    /\ \E buf \in Buffers : Leaves(heading_single(Ctx(d), buf), Op("heading", 0, 0, 0, 0))

SetThresholdSingle ==
    /\ variant = "single"
    /\ \E condition \in Conditions, value \in ThresholdValues :
        Leaves(Void(setThreshold_single(Ctx(d), condition, value)),
               Op("setThreshold", condition, value, 0, 0))

ThresholdSingle ==
    /\ variant = "single"
    /\ \E condition \in Conditions :
        Leaves(threshold_single(Ctx(d), condition), Op("threshold", condition, 0, 0, 0))

Next ==
    \/ Query \/ Update
    \/ DistanceFrontLeft \/ DistanceFrontRight \/ DistanceRear
    \/ DistanceLeftSide \/ DistanceRightSide
    \/ Heading \/ Pitch \/ Roll
    \/ SetThreshold \/ Threshold
    \/ QueryDual \/ UpdateDual
    \/ DistanceLeft \/ DistanceRight \/ HeadingDual
    \/ SetThresholdDual \/ GetProximityThreshold
    \/ QuerySingle \/ UpdateSingle
    \/ DistanceLeftSingle \/ DistanceRightSingle \/ HeadingSingle
    \/ SetThresholdSingle \/ ThresholdSingle

Spec == Init /\ [][Next]_vars

----------------------------------------------------------------------------
(* An accessor call split between its mode selection and its transport
   read, with the poll cycle of the same driver running in between *)

\* poll steps remembered between a selection and its read
MaxPolls == 2

\* the channel accessors of a class
AccessorsOf(v) ==
    IF v = "main"
    THEN {"distanceFrontLeft", "distanceFrontRight", "distanceRear",
          "distanceLeftSide", "distanceRightSide", "heading", "pitch", "roll"}
    ELSE {"distanceLeft", "distanceRight", "heading"}

\* the accessor of that name in the instance's class
AccessorOf(v, name, c, buf) ==
    CASE v = "main" /\ name = "distanceFrontLeft" -> distanceFrontLeft(c, buf)
      [] v = "main" /\ name = "distanceFrontRight" -> distanceFrontRight(c, buf)
      [] v = "main" /\ name = "distanceRear" -> distanceRear(c, buf)
      [] v = "main" /\ name = "distanceLeftSide" -> distanceLeftSide(c, buf)
      [] v = "main" /\ name = "distanceRightSide" -> distanceRightSide(c, buf)
      [] v = "main" /\ name = "heading" -> heading(c, buf)
      [] v = "main" /\ name = "pitch" -> pitch(c, buf)
      [] v = "main" /\ name = "roll" -> roll(c, buf)
      [] v = "dual" /\ name = "distanceLeft" -> distanceLeft(c, buf)
      [] v = "dual" /\ name = "distanceRight" -> distanceRight(c, buf)
      [] v = "dual" /\ name = "heading" -> heading_dual(c, buf)
      [] v = "single" /\ name = "distanceLeft" -> distanceLeft_single(c, buf)
      [] v = "single" /\ name = "distanceRight" -> distanceRight_single(c, buf)
      [] v = "single" /\ name = "heading" -> heading_single(c, buf)

\* _query of the instance's class
QueryOf(v, c, buf) ==
    CASE v = "main" -> _query(c, buf)
      [] v = "dual" -> _query_dual(c, buf)
      [] v = "single" -> _query_single(c, buf)

\* _update of the instance's class
UpdateOf(v, c, prev, curr, tie, wr, wl) ==
    CASE v = "main" -> _update(c, prev, curr, tie)
      [] v = "dual" -> _update_dual(c, prev, curr, tie, wr, wl)
      [] v = "single" -> _update_single(c, prev, curr, tie)

\* a poll step is remembered while an accessor call is pending
Polled(step) ==
    IF pending.name # "none" /\ Len(pending.polls) < MaxPolls
    THEN [pending EXCEPT !.polls = Append(@, step)]
    ELSE pending

\* first statement of an accessor: this._setMode(mode of its channel)
SelectMode ==
    /\ pending.name = "none"
    /\ \E name \in AccessorsOf(variant) :
       \E c \in {AccessorOf(variant, name, Ctx(d), ExampleBuffer)} :
        /\ Effect([c EXCEPT !.reads = <<>>, !.ret = 0],
                  Op("_setMode", 0, c.d.currentMode, 0, 0))
        /\ pending' = [name |-> name, polls |-> <<>>]
        /\ UNCHANGED <<peer, self, waiting>>

\* second statement of the pending accessor: return this.getNumber(format,
\* offset), performed under whatever mode is active by then
Read ==
    /\ pending.name # "none"
    /\ \E buf \in Buffers :
       \E r \in {AccessorOf(variant, pending.name, Ctx(d), buf).reads[1]} :
       \E c \in {getNumber(Ctx(d), r.fmt, r.off, buf)} :
        /\ Effect(c, Op(pending.name, 0, 0, 0, 0))
        /\ pending' = [pending EXCEPT !.name = "none"]
        /\ UNCHANGED <<peer, self, waiting>>

\* the poll loop's _query
PollQuery ==
    \E buf \in Buffers :
    \E c \in {QueryOf(variant, Ctx(d), buf)} :
        /\ Effect(c, Op("_query", 0, 0, 0, 0))
        /\ pending' = Polled("_query")
        /\ UNCHANGED <<peer, self, waiting>>

\* the poll loop's _update
PollUpdate ==
    \E prev \in PrevValues, curr \in CurrValues, wr \in RangeBuffers, wl \in RangeBuffers :
    \E tie \in Ties(d.promixityThreshold, curr) :
    \E c \in {Void(UpdateOf(variant, Ctx(d), prev, curr, tie, wr, wl))} :
        /\ Effect(c, Op("_update", 0, 0, prev, curr))
        /\ pending' = Polled("_update")
        /\ UNCHANGED <<peer, self, waiting>>

NextPoll == SelectMode \/ Read \/ PollQuery \/ PollUpdate

SpecPoll == Init /\ [][NextPoll]_vars

----------------------------------------------------------------------------
(* Two instances of one class, on port 1 and on PeerPort, and one calling
   context that may be suspended in pauseUntil on either of them *)

\* inputs of the two-instance runs
TwoPorts == Ports \cup {PeerPort}
TwoBuffers == {ExampleBuffer}
TwoPrev == {10}
TwoCurr == {10, 2000}
TwoConditions == {ObjectDetected, ObjectNear}
TwoThresholds == {200}

\* the driver object of the instance on port p
Instance(p) == IF p = PeerPort THEN peer ELSE d

\* setThreshold of the instance's class
SetThresholdOf(v, c, condition, value) ==
    CASE v = "main" -> setThreshold(c, condition, value)
      [] v = "dual" -> setThreshold_dual(c, condition, value)
      [] v = "single" -> setThreshold_single(c, condition, value)

\* pauseUntil of the instance's class
PauseUntilOf(v, c, event) ==
    CASE v = "main" -> pauseUntil(c, event)
      [] v = "dual" -> pauseUntil_dual(c, event)
      [] v = "single" -> pauseUntil_single(c, event)

\* section 6 event bus: a suspended context resumes when an event of the
\* source and code it waits for is raised, and on nothing else
Resumed(evs) ==
    IF /\ waiting.status = "suspended"
       /\ \E i \in 1 .. Len(evs) :
            evs[i].src = waiting.src /\ evs[i].code = waiting.code
    THEN [waiting EXCEPT !.status = "resumed"]
    ELSE waiting

\* what an operation called on the instance of port p did
EffectOn(p, c, o) ==
    /\ d' = IF p = PeerPort THEN d ELSE c.d
    /\ peer' = IF p = PeerPort THEN c.d ELSE peer
    /\ cmds' = c.cmds
    /\ raised' = c.raised
    /\ reads' = c.reads
    /\ ret' = c.ret
    /\ op' = o
    /\ self' = p
    /\ UNCHANGED <<variant, pending>>

TwoQuery ==
    \E p \in TwoPorts, buf \in TwoBuffers :
    \E c \in {QueryOf(variant, Ctx(Instance(p)), buf)} :
        /\ EffectOn(p, c, Op("_query", 0, 0, 0, 0))
        /\ waiting' = Resumed(c.raised)

TwoUpdate ==
    \E p \in TwoPorts, prev \in TwoPrev, curr \in TwoCurr :
    \E wr \in RangeBuffers, wl \in RangeBuffers :
    \E tie \in Ties(Instance(p).promixityThreshold, curr) :
    \E c \in {Void(UpdateOf(variant, Ctx(Instance(p)), prev, curr, tie, wr, wl))} :
        /\ EffectOn(p, c, Op("_update", 0, 0, prev, curr))
        /\ waiting' = Resumed(c.raised)

TwoAccessor ==
    \E p \in TwoPorts, name \in AccessorsOf(variant), buf \in TwoBuffers :
    \E c \in {AccessorOf(variant, name, Ctx(Instance(p)), buf)} :
        /\ EffectOn(p, c, Op(name, 0, 0, 0, 0))
        /\ waiting' = Resumed(c.raised)

TwoSetThreshold ==
    \E p \in TwoPorts, condition \in TwoConditions, value \in TwoThresholds :
    \E c \in {Void(SetThresholdOf(variant, Ctx(Instance(p)), condition, value))} :
        /\ EffectOn(p, c, Op("setThreshold", condition, value, 0, 0))
        /\ waiting' = Resumed(c.raised)

\* pauseUntil(event) called on the instance of port p: the context is
\* suspended on what the call handed to the event bus
TwoPauseUntil ==
    /\ waiting.status # "suspended"
    /\ \E p \in TwoPorts, event \in TwoConditions :
       \E c \in {PauseUntilOf(variant, Ctx(Instance(p)), event)} :
        /\ EffectOn(p, c, Op("pauseUntil", event, 0, 0, 0))
        /\ waiting' = [status |-> "suspended", port |-> p, event |-> event,
                       src |-> c.wait.src, code |-> c.wait.code]

NextTwo ==
    TwoQuery \/ TwoUpdate \/ TwoAccessor \/ TwoSetThreshold \/ TwoPauseUntil

SpecTwo == Init /\ [][NextTwo]_vars

----------------------------------------------------------------------------
(* Static channel table and helpers of the properties *)

\* main.ts header comment: RANGE carries the five ranges, HEADING the angles
ChannelMode(name) ==
    IF name \in {"distanceFrontLeft", "distanceFrontRight", "distanceRear",
                 "distanceLeftSide", "distanceRightSide"}
    THEN RANGE
    ELSE HEADING

\* navigation-sensor.ts header comment: NAV1 carries left range, right range
\* and heading
ChannelMode_nav(name) == NAV1

ChannelModeOf(v, name) ==
    IF v = "main" THEN ChannelMode(name) ELSE ChannelMode_nav(name)

AccessorNames ==
    {"distanceFrontLeft", "distanceFrontRight", "distanceRear", "distanceLeftSide",
     "distanceRightSide", "heading", "pitch", "roll", "distanceLeft", "distanceRight"}

\* the range accessors of the three classes
RangeAccessorNames ==
    {"distanceFrontLeft", "distanceFrontRight", "distanceRear", "distanceLeftSide",
     "distanceRightSide", "distanceLeft", "distanceRight"}

\* header comments of NavigationSensorMode: the channels of a mode in the
\* order the device sends them, two bytes each
ChannelOffset(name) ==
    CASE name \in {"distanceFrontLeft", "distanceLeft"} -> 0
      [] name \in {"distanceFrontRight", "distanceRight"} -> 2
      [] name = "distanceLeftSide" -> 4
      [] name = "distanceRightSide" -> 6
      [] name = "distanceRear" -> 8
      [] OTHER -> 0

\* how many times the event (src, code) occurs in the sequence evs
Count(evs, src, code) ==
    Cardinality({i \in 1 .. Len(evs) : evs[i].src = src /\ evs[i].code = code})

\* how many events of that code occur in evs, whatever their source
CountCode(evs, code) ==
    Cardinality({i \in 1 .. Len(evs) : evs[i].code = code})

----------------------------------------------------------------------------
(* Properties *)

\* C1: whenever a channel accessor performs its transport read, the mode
\* active at that read is the mode of its channel; this includes the two
\* accessor calls _update makes in the dual-lidar class.
C1_ReadUnderChannelMode ==
    /\ op.name \in AccessorNames =>
          /\ Len(reads) = 1
          /\ reads[1].mode = ChannelModeOf(variant, op.name)
    /\ (variant = "dual" /\ op.name = "_update") =>
          \A i \in 1 .. Len(reads) : reads[i].mode = ChannelMode_nav("distanceLeft")

\* C1 witness: a range accessor of main.ts called while HEADING was active,
\* after updates and setThreshold calls changed the rest of the driver.
C1_Witness ==
    /\ variant = "main"
    /\ op.name = "distanceRear"
    /\ cmds = <<RANGE>>
    /\ reads[1].mode = RANGE
    /\ d.movementThreshold # 1
    /\ d.promixityThreshold.state # Normal

\* C2: a mode request issues a device command exactly when the requested
\* mode differs from currentMode and then makes it the current mode; an equal
\* request issues nothing and changes nothing.  The constructor's request
\* finds the mode unset and issues one command; the two accessor calls inside
\* the dual-lidar _update issue one command between them only if NAV1 was
\* not active.
C2_ModeSwitchSuppression ==
    /\ op.name = "constructor" => cmds = <<d.currentMode>> /\ d.currentMode # None
    /\ [][op'.name \in AccessorNames =>
            LET m == ChannelModeOf(variant, op'.name)
            IN  IF m # d.currentMode
                THEN cmds' = <<m>> /\ d' = [d EXCEPT !.currentMode = m]
                ELSE cmds' = <<>> /\ d' = d]_vars
    /\ [][(variant = "dual" /\ op'.name = "_update") =>
            /\ cmds' = (IF d.currentMode # NAV1 THEN <<NAV1>> ELSE <<>>)
            /\ d'.currentMode = NAV1]_vars

\* C2 witness: a second read of a channel sharing the active mode, zero
\* commands issued.
C2_Witness ==
    /\ variant = "main"
    /\ op.name = "distanceRightSide"
    /\ cmds = <<>>
    /\ d.currentMode = RANGE

\* C3: _update raises ObjectDetected under the driver's source id exactly
\* when |curr - prev| exceeds the configured movement threshold, at most
\* once, and never under another source id.
C3_MovementDetection ==
    op.name = "_update" =>
        LET n == Count(raised, d.id, ObjectDetected)
            moved == \/ op.curr - op.prev > d.movementThreshold
                     \/ op.prev - op.curr > d.movementThreshold
        IN  /\ n = (IF moved THEN 1 ELSE 0)
            /\ CountCode(raised, ObjectDetected) = n

\* C3 witness: threshold 1, _update(10, 12) raised ObjectDetected once.
C3_Witness ==
    /\ op.name = "_update"
    /\ d.movementThreshold = 1
    /\ op.prev = 10
    /\ op.curr = 12
    /\ Count(raised, d.id, ObjectDetected) = 1

\* C4: the detector starts in Normal, and after every _update(prev, curr)
\* its level is the one curr has against the thresholds: Low only if
\* curr <= lowThreshold, High only if curr >= highThreshold, Normal only if
\* neither.  With the dual-lidar defaults 100 and 1500: 99 and 100 give Low,
\* 101 and 1499 Normal, 1500 High.
C4_LevelFollowsCurr ==
    LET td == d.promixityThreshold
    IN  /\ op.name = "constructor" => td.state = Normal
        /\ op.name = "_update" =>
              /\ td.state \in {Normal, High, Low}
              /\ td.state = Low => op.curr <= td.lowThreshold
              /\ td.state = High => op.curr >= td.highThreshold
              /\ td.state = Normal =>
                    op.curr > td.lowThreshold /\ op.curr < td.highThreshold
        /\ (op.name = "_update" /\ td.lowThreshold = 100 /\ td.highThreshold = 1500) =>
              /\ op.curr \in {99, 100} => td.state = Low
              /\ op.curr \in {101, 1499} => td.state = Normal
              /\ op.curr = 1500 => td.state = High

\* C4 witness: thresholds 100 and 1500, _update(10, 100) in a driver whose
\* movement threshold was changed left the level Low.
C4_Witness ==
    /\ variant = "dual"
    /\ op.name = "_update"
    /\ d.promixityThreshold.lowThreshold = 100
    /\ d.promixityThreshold.highThreshold = 1500
    /\ op.curr = 100
    /\ op.prev = 10
    /\ d.movementThreshold = 200
    /\ d.promixityThreshold.state = Low

\* C5: ObjectNear is edge-triggered.  An update raises ObjectNear, at most
\* once, only when it takes the detector's level from a non-Low level to Low;
\* an update that finds the level Low and leaves it Low raises none.
C5_ObjectNearEdgeTriggered ==
    [][op'.name = "_update" =>
          LET n == CountCode(raised', ObjectNear)
              before == d.promixityThreshold.state
              after == d'.promixityThreshold.state
          IN  /\ n <= 1
              /\ n = Count(raised', d.id, ObjectNear)
              /\ n = 1 => before # Low /\ after = Low
              /\ (before = Low /\ after = Low) => n = 0]_vars

\* C5 witness: an update with a value at or below lowThreshold that left the
\* level Low and raised no ObjectNear, the level having been Low already.
C5_Witness ==
    /\ op.name = "_update"
    /\ op.curr <= d.promixityThreshold.lowThreshold
    /\ op.curr < d.promixityThreshold.highThreshold
    /\ d.promixityThreshold.state = Low
    /\ CountCode(raised, ObjectNear) = 0

\* C6: in the dual-lidar class every _update re-reads the right range and
\* then the left range, and raises ObjectNearRight, respectively
\* ObjectNearLeft, exactly when the re-read range is below the low threshold,
\* whatever the level of the primary channel and whether or not
\* ObjectDetected was raised.
C6_SideRangesChecked ==
    (variant = "dual" /\ op.name = "_update") =>
        /\ Len(reads) = 2
        /\ reads[1].off = 2 /\ reads[1].fmt = UInt16LE
        /\ reads[2].off = 0 /\ reads[2].fmt = UInt16LE
        /\ Count(raised, d.id, ObjectNearRight) =
              (IF reads[1].value < d.promixityThreshold.lowThreshold THEN 1 ELSE 0)
        /\ Count(raised, d.id, ObjectNearLeft) =
              (IF reads[2].value < d.promixityThreshold.lowThreshold THEN 1 ELSE 0)
        /\ CountCode(raised, ObjectNearRight) = Count(raised, d.id, ObjectNearRight)
        /\ CountCode(raised, ObjectNearLeft) = Count(raised, d.id, ObjectNearLeft)

\* C6 witness: low threshold 100, left range 50 raised ObjectNearLeft, right
\* range 2000 raised no ObjectNearRight, in an update whose primary level is
\* not Low and that raised no ObjectDetected.
C6_Witness ==
    /\ variant = "dual"
    /\ op.name = "_update"
    /\ d.promixityThreshold.lowThreshold = 100
    /\ reads[1].value = 2000
    /\ reads[2].value = 50
    /\ Count(raised, d.id, ObjectNearLeft) = 1
    /\ Count(raised, d.id, ObjectNearRight) = 0
    /\ d.promixityThreshold.state # Low
    /\ CountCode(raised, ObjectDetected) = 0

\* C7: in main.ts, whenever _query performs its read the active mode is
\* HEADING, so the value handed to _update is the heading.
C7_QueryReadsHeading ==
    (variant = "main" /\ op.name = "_query") =>
        /\ Len(reads) = 1
        /\ reads[1].off = 0
        /\ reads[1].mode = HEADING

\* in-range value for the low threshold: one that keeps
\* min <= lowThreshold <= highThreshold <= max
InRange(td, value) == td.min <= value /\ value <= td.highThreshold

\* what the threshold getter of the instance's class returns
GetterRet(v, drv, condition) ==
    CASE v = "main" -> threshold(Ctx(drv), condition).ret
      [] v = "dual" -> getProximityThreshold(Ctx(drv), condition).ret
      [] v = "single" -> threshold_single(Ctx(drv), condition).ret

\* C8: setThreshold(ObjectDetected, v) sets the movement threshold and leaves
\* the detector alone; setThreshold(ObjectNear, v) sets the detector's low
\* threshold and leaves the movement threshold, the high threshold and the
\* level alone; the getter returns the movement threshold for ObjectDetected
\* and the low threshold for ObjectNear; a set with an in-range v followed
\* by a get with the same condition returns v.
C8_ThresholdRouting ==
    [][LET td == d.promixityThreshold
           td2 == d'.promixityThreshold
           v == op'.value
       IN  /\ (op'.name = "setThreshold" /\ op'.cond = ObjectDetected) =>
                 /\ d'.movementThreshold = v
                 /\ td2 = td
                 /\ GetterRet(variant, d', ObjectDetected) = v
           /\ (op'.name = "setThreshold" /\ op'.cond = ObjectNear) =>
                 /\ d'.movementThreshold = d.movementThreshold
                 /\ td2 = [td EXCEPT !.lowThreshold = td2.lowThreshold]
                 /\ InRange(td, v) =>
                       /\ td2.lowThreshold = v
                       /\ GetterRet(variant, d', ObjectNear) = v
           /\ (op'.name = "threshold" /\ op'.cond = ObjectDetected) =>
                 ret' = d.movementThreshold /\ d' = d
           /\ (op'.name = "threshold" /\ op'.cond = ObjectNear) =>
                 ret' = td.lowThreshold /\ d' = d]_vars

\* C8 witness: the getter asked for ObjectDetected returns a movement
\* threshold that a setThreshold stored, different from the low threshold.
C8_Witness ==
    /\ variant = "dual"
    /\ op.name = "threshold"
    /\ op.cond = ObjectDetected
    /\ ret = 200
    /\ d.movementThreshold = 200
    /\ d.promixityThreshold.lowThreshold = 1500

Recognized == {ObjectNear, ObjectDetected}

\* C9 as stated: in every class, setThreshold with a condition that is
\* neither ObjectNear nor ObjectDetected changes neither the proximity
\* thresholds nor the movement threshold, and the getter returns 0 for it.
C9_UnrecognizedIsNoOp ==
    [][/\ (op'.name = "setThreshold" /\ op'.cond \notin Recognized) => d' = d
       /\ (op'.name = "threshold" /\ op'.cond \notin Recognized) => ret' = 0]_vars

\* C9 amended: in main.ts and in the second class of navigation-sensor.ts an
\* unrecognized condition is a no-op on set and gives 0 on get; in the
\* dual-lidar class every condition other than ObjectDetected is handled as
\* ObjectNear: set passes the value to the detector's low threshold and
\* leaves the movement threshold alone, get returns the low threshold.
C9_UnrecognizedByClass ==
    [][LET td == d.promixityThreshold
           td2 == d'.promixityThreshold
       IN  /\ (op'.name = "setThreshold" /\ op'.cond \notin Recognized) =>
                 IF variant = "dual"
                 THEN /\ d'.movementThreshold = d.movementThreshold
                      /\ d'.currentMode = d.currentMode
                      /\ td2 = [td EXCEPT !.lowThreshold =
                                   IF InRange(td, op'.value) THEN op'.value ELSE @]
                 ELSE d' = d
           /\ (op'.name = "threshold" /\ op'.cond \notin Recognized) =>
                 /\ d' = d
                 /\ ret' = (IF variant = "dual" THEN td.lowThreshold ELSE 0)]_vars

\* C9 witness: the dual-lidar getter asked for ObjectNearLeft returns the
\* low threshold, which a setThreshold(ObjectNearRight, 200) stored.
C9_Witness ==
    /\ variant = "dual"
    /\ op.name = "threshold"
    /\ op.cond = ObjectNearLeft
    /\ ret = 200
    /\ d.promixityThreshold.lowThreshold = 200

\* C10: in every reachable state the detector satisfies
\* min <= lowThreshold <= highThreshold <= max, with min = 0 and max = 2500
\* in the dual-lidar class, max = 255 in the others.
C10_ThresholdOrdering ==
    LET td == d.promixityThreshold
    IN  /\ td.min = 0
        /\ td.max = (IF variant = "dual" THEN 2500 ELSE 255)
        /\ td.min <= td.lowThreshold
        /\ td.lowThreshold <= td.highThreshold
        /\ td.highThreshold <= td.max

\* C10 witness: setThreshold(ObjectNear, 3000) was called on the dual-lidar
\* driver, a value above max.
C10_Witness ==
    /\ variant = "dual"
    /\ op.name = "setThreshold"
    /\ op.cond = ObjectNear
    /\ op.value = 3000
    /\ d.promixityThreshold.state # Normal

\* C11: setThreshold(ObjectNear, value) with a value below min, above max or
\* above highThreshold leaves lowThreshold, highThreshold, the level and the
\* movement threshold as they were.
C11_InvalidThresholdRejected ==
    [][LET td == d.promixityThreshold
       IN  (/\ op'.name = "setThreshold"
            /\ op'.cond = ObjectNear
            /\ \/ op'.value < td.min
               \/ op'.value > td.max
               \/ op'.value > td.highThreshold) =>
               /\ d'.promixityThreshold = td
               /\ d'.movementThreshold = d.movementThreshold]_vars

\* C11 witness: setThreshold(ObjectNear, 200) on a main.ts driver, a value
\* inside 0..255 but above highThreshold 100, after the level left Normal and
\* the low threshold was changed; the low threshold is not 200.
C11_Witness ==
    /\ variant = "main"
    /\ op.name = "setThreshold"
    /\ op.cond = ObjectNear
    /\ op.value = 200
    /\ d.promixityThreshold.lowThreshold = 0
    /\ d.promixityThreshold.highThreshold = 100
    /\ d.promixityThreshold.state = High

\* C12: without a setThreshold call the threshold getter returns the same
\* value for every condition, across reads, updates and accessor calls;
\* _update (setLevel) changes neither threshold, and the getter changes no
\* state.
C12_ThresholdsStable ==
    [][/\ op'.name # "setThreshold" =>
            /\ \A condition \in Conditions :
                   GetterRet(variant, d', condition) = GetterRet(variant, d, condition)
            /\ d'.promixityThreshold.lowThreshold = d.promixityThreshold.lowThreshold
            /\ d'.promixityThreshold.highThreshold = d.promixityThreshold.highThreshold
            /\ d'.movementThreshold = d.movementThreshold
       /\ op'.name = "threshold" =>
            /\ d' = d
            /\ ret' = GetterRet(variant, d, op'.cond)]_vars

\* C12 witness: the getter returns the configured low threshold 200 after an
\* update took the level to High.
C12_Witness ==
    /\ op.name = "threshold"
    /\ op.cond = ObjectNear
    /\ ret = 200
    /\ d.promixityThreshold.state = High

\* place of an event code in the order in which _update raises: the level
\* signalled by setLevel (ObjectNear is the Low level), then ObjectDetected,
\* then ObjectNearRight, then ObjectNearLeft
RaiseRank(code) ==
    CASE code \in {Normal, High, Low} -> 1
      [] code = ObjectDetected -> 2
      [] code = ObjectNearRight -> 3
      [] code = ObjectNearLeft -> 4

\* C13: the events of one update are raised in the order ObjectNear,
\* ObjectDetected, ObjectNearRight, ObjectNearLeft, each at most once.
C13_RaiseOrder ==
    op.name = "_update" =>
        \A i, j \in 1 .. Len(raised) :
            i < j => RaiseRank(raised[i].code) < RaiseRank(raised[j].code)

\* C13 witness: an update that raised all four events.
C13_Witness ==
    /\ op.name = "_update"
    /\ Len(raised) = 4
    /\ raised[1].code = ObjectNear
    /\ raised[2].code = ObjectDetected
    /\ raised[3].code = ObjectNearRight
    /\ raised[4].code = ObjectNearLeft

\* C17: in the classes of navigation-sensor.ts currentMode is NAV1 in every
\* state after construction, no operation after the constructor issues a
\* mode-switch command, and _query reads its offset-0 field under NAV1.
C17_AlwaysNav1 ==
    variant \in {"dual", "single"} =>
        /\ d.currentMode = NAV1
        /\ op.name # "constructor" => cmds = <<>>
        /\ op.name = "_query" =>
              Len(reads) = 1 /\ reads[1].off = 0 /\ reads[1].mode = NAV1
        /\ \A i \in 1 .. Len(reads) : reads[i].mode = NAV1

\* C17 witness: _query on the dual-lidar driver after updates and threshold
\* changes.
C17_Witness ==
    /\ variant = "dual"
    /\ op.name = "_query"
    /\ d.promixityThreshold.state = High
    /\ d.promixityThreshold.lowThreshold = 200
    /\ reads[1].mode = NAV1

\* C19 as stated: in the dual-lidar class, whenever an update leaves the
\* detector Low on the left range curr and the re-read left range equals
\* curr, ObjectNearLeft is raised in that update.
C19_LeftChecksAgree ==
    (/\ variant = "dual"
     /\ op.name = "_update"
     /\ d.promixityThreshold.state = Low
     /\ reads[2].value = op.curr) =>
        Count(raised, d.id, ObjectNearLeft) = 1

\* C19 amended: the two checks agree when curr is strictly below
\* lowThreshold: the level is Low and ObjectNearLeft is raised.  At
\* curr = lowThreshold (below highThreshold) the level is Low and
\* ObjectNearLeft is not raised.
C19_LeftChecksAgreeBelow ==
    (/\ variant = "dual"
     /\ op.name = "_update"
     /\ reads[2].value = op.curr) =>
        LET td == d.promixityThreshold
        IN  /\ op.curr < td.lowThreshold =>
                  td.state = Low /\ Count(raised, d.id, ObjectNearLeft) = 1
            /\ (op.curr = td.lowThreshold /\ op.curr < td.highThreshold) =>
                  td.state = Low /\ Count(raised, d.id, ObjectNearLeft) = 0

\* C19 witness: low threshold 200, curr 100 and left range 100: Low and
\* ObjectNearLeft.
C19_Witness ==
    /\ variant = "dual"
    /\ op.name = "_update"
    /\ op.curr = 100
    /\ reads[2].value = 100
    /\ d.promixityThreshold.lowThreshold = 200
    /\ d.promixityThreshold.state = Low
    /\ Count(raised, d.id, ObjectNearLeft) = 1

\* C20: whatever movement threshold setThreshold(ObjectDetected, v) stored,
\* an update with curr = prev raises no ObjectDetected.
C20_NoMovementNoEvent ==
    (op.name = "_update" /\ op.curr = op.prev) =>
        CountCode(raised, ObjectDetected) = 0

----------------------------------------------------------------------------
(* C16: after a range accessor, the value returned is the unsigned 16-bit
   little-endian number buf[off] + 256 * buf[off + 1] of the buffer the
   transport returned, off being the accessor's channel offset, and lies in
   0 .. 65535; on a buffer that starts 0x64 0x00 0x2C 0x01 the channel at
   offset 0 returns 100 and the channel at offset 2 returns 300. *)
C16_RangeDecode ==
    (op.name \in RangeAccessorNames) =>
        /\ Len(reads) = 1
        /\ LET buf == reads[1].buf
               off == ChannelOffset(op.name)
           IN  /\ ret = buf[off + 1] + 256 * buf[off + 2]
               /\ ret \in 0 .. 65535
               /\ (SubSeq(buf, 1, 4) = <<100, 0, 44, 1>> /\ off = 0) => ret = 100
               /\ (SubSeq(buf, 1, 4) = <<100, 0, 44, 1>> /\ off = 2) => ret = 300

\* the front right range read from the example buffer
C16_Witness ==
    /\ variant = "main"
    /\ op.name = "distanceFrontRight"
    /\ Len(reads) = 1
    /\ reads[1].buf = ExampleBuffer
    /\ ret = 300

----------------------------------------------------------------------------
(* C18: when steps of the poll cycle of the same driver (_query, _update
   with its own mode requests and reads) run between an accessor's mode
   selection and its transport read, the mode is the accessor's channel mode
   for as long as the call is pending and at its read; a poll step leaves the
   driver in the mode it found. *)
C18_PollKeepsMode ==
    /\ [](/\ pending.name # "none" =>
               d.currentMode = ChannelModeOf(variant, pending.name)
          /\ (op.name \in AccessorsOf(variant) /\ Len(reads) = 1) =>
               reads[1].mode = ChannelModeOf(variant, op.name))
    /\ [][op'.name \in {"_query", "_update"} =>
            d'.currentMode = d.currentMode]_vars

\* a front left range read after a whole poll cycle ran since its selection
C18_Witness ==
    /\ variant = "main"
    /\ op.name = "distanceFrontLeft"
    /\ pending = [name |-> "none", polls |-> <<"_query", "_update">>]
    /\ reads[1].mode = RANGE

----------------------------------------------------------------------------
(* C14: pauseUntil(event) on a driver suspends the calling context on that
   driver and that event, whatever was raised before the call.  A suspended
   context resumes in the step that raises an event with that driver's
   source id and that event code, and stays suspended through every other
   step: an event of another code, any step of another instance (the same
   code included), and steps that raise nothing. *)
C14_PauseUntil ==
    [][/\ op'.name = "pauseUntil" =>
            /\ waiting'.status = "suspended"
            /\ waiting'.port = self'
            /\ waiting'.event = op'.cond
       /\ waiting.status = "suspended" =>
            LET hit == \E i \in 1 .. Len(raised') :
                          /\ raised'[i].src = Instance(waiting.port).id
                          /\ raised'[i].code = waiting.event
            IN  /\ hit => waiting' = [waiting EXCEPT !.status = "resumed"]
                /\ ~hit => waiting' = waiting
                /\ self' # waiting.port => waiting' = waiting]_vars

\* a context that waited for ObjectDetected on port 1 and was resumed by an
\* update of that instance
C14_Witness ==
    /\ variant = "main"
    /\ waiting.status = "resumed"
    /\ waiting.port = 1
    /\ waiting.event = ObjectDetected
    /\ op.name = "_update"
    /\ self = 1
    /\ Count(raised, 1, ObjectDetected) = 1
    /\ Count(raised, 1, High) = 1

----------------------------------------------------------------------------
(* C15: with two instances on different ports, an operation called on one
   leaves the other's driver object (mode, thresholds, level, movement
   threshold) unchanged, every event it raises carries the source id of the
   instance it was called on, and a context suspended on the other instance
   stays suspended. *)
C15_InstanceIsolation ==
    [][/\ d.id # peer.id
       /\ self' \in Ports =>
            /\ peer' = peer
            /\ \A i \in 1 .. Len(raised') : raised'[i].src = d.id
       /\ self' = PeerPort =>
            /\ d' = d
            /\ \A i \in 1 .. Len(raised') : raised'[i].src = peer.id
       /\ (waiting.status = "suspended" /\ waiting.port # self') =>
            waiting' = waiting]_vars

\* an update of the second instance that raised ObjectDetected and High
\* while a context waits for ObjectDetected on the first, whose level is
\* still Normal
C15_Witness ==
    /\ variant = "dual"
    /\ self = PeerPort
    /\ op.name = "_update"
    /\ Count(raised, PeerPort, ObjectDetected) = 1
    /\ Count(raised, PeerPort, High) = 1
    /\ peer.promixityThreshold.state = High
    /\ d.promixityThreshold.state = Normal
    /\ waiting.status = "suspended"
    /\ waiting.port = 1
    /\ waiting.event = ObjectDetected

----------------------------------------------------------------------------
(* C21: a channel accessor call, in any class, leaves the proximity
   detector (thresholds and level) and the movement threshold unchanged and
   raises no event; in main.ts, _update, setThreshold and the threshold
   getter leave currentMode unchanged and issue no mode-switch command. *)
C21_AccessorsTouchOnlyMode ==
    [][/\ op'.name \in AccessorNames =>
            /\ d'.promixityThreshold = d.promixityThreshold
            /\ d'.movementThreshold = d.movementThreshold
            /\ d'.id = d.id
            /\ raised' = <<>>
       /\ (variant = "main" /\ op'.name \in {"_update", "setThreshold", "threshold"}) =>
            /\ d'.currentMode = d.currentMode
            /\ cmds' = <<>>]_vars

\* pitch called while RANGE was active, on a driver whose thresholds and
\* level earlier calls had changed: the mode is switched and nothing else
C21_Witness ==
    /\ variant = "main"
    /\ op.name = "pitch"
    /\ cmds = <<HEADING>>
    /\ raised = <<>>
    /\ d.promixityThreshold.state = Low
    /\ d.promixityThreshold.lowThreshold = 0
    /\ d.movementThreshold = 200

====
